---- MODULE Spec2Model ----
(***************************************************************************)
(* The live-entity synchronisation engine of the flight tracker: the       *)
(* useFlights hook (src/src/hooks/useFlights.ts, AirLabs variant).         *)
(*                                                                         *)
(* Units.  Longitudes and latitudes are integers counting 1e-4 degrees     *)
(* (10.0001 deg is 100001), so the trail epsilon 0.001 deg is 10.  The     *)
(* clock counts seconds (Date.now() / 1000).  A JavaScript number is a     *)
(* record [nan, v]: parseFloat yields NaN for null, undefined and text.    *)
(* Keys of the two ref maps and icao24 values are naturals naming the      *)
(* strings of the program (see HexA .. DummyBase).                         *)
(***************************************************************************)
EXTENDS Integers, Sequences, FiniteSets, TLC

\* ------------------------------------------------------------------ bounds
MaxFetches == 3        \* fetch cycles issued in one behaviour
MaxClock == 45         \* the clock stops advancing here (seconds)
ClockStep == 45        \* seconds that pass in one Advance step
MaxInFlight == 2       \* requests awaiting their response at one time
MaxTrailFetches == 53  \* fetch cycles in one behaviour of SpecTrail
MaxFrameClock == 20    \* the clock of SpecFrame stops advancing here (seconds)
FrameClockStep == 10   \* seconds that pass in one Advance step of SpecFrame
MaxSessionClock == 540 \* the clock of SpecSession stops advancing here
SessionClockStep == 60 \* seconds that pass in one Advance step of SpecSession
MaxTimers == 5         \* timeouts created in one behaviour of SpecSession

\* ------------------------------------------------------- program constants
SESSION_TIMEOUT == 180 \* 3 * 60 * 1000 ms, in seconds
TRAIL_EPSILON == 10    \* 0.001 degrees, in 1e-4 degrees
TRAIL_CAP == 50
MAX_FLIGHTS == 500
STALE_SECONDS == 60
DUMMY_COUNT == 100
KNOT_MICRO == 514444   \* velocity * 0.514444, kept in 1e-6 m/s
DISP_DEN == 11132000   \* 111320 m per degree, for 1e-6 m/s and 1e-4 degrees

\* -------------------------------------------------------------- JS values
NULL == "null"

Num(n) == [nan |-> FALSE, v |-> n]
NaN == [nan |-> TRUE, v |-> 0]

\* A JSON field value as it arrives: null, absent (undefined), a number, a
\* numeric string or other text.
JNull == [t |-> "null", v |-> 0]
JUndef == [t |-> "undef", v |-> 0]
JNum(n) == [t |-> "num", v |-> n]
JText == [t |-> "text", v |-> 0]
JStr(id) == [t |-> "str", v |-> id]   \* a non-empty string naming id

\* parseFloat: the number itself, the number a numeric string spells, NaN else.
ParseFloat(x) == IF x.t \in {"num", "numstr"} THEN Num(x.v) ELSE NaN

\* parseFloat(x) || 0: NaN and 0 are falsy
OrZero(n) == IF n.nan \/ n.v = 0 THEN 0 ELSE n.v

Abs(i) == IF i < 0 THEN -i ELSE i

\* Math.abs(a - b) > eps; any comparison with NaN is false
AbsDiffGt(a, b, eps) == ~a.nan /\ ~b.nan /\ Abs(a.v - b.v) > eps

\* ------------------------------------------------------------------- ids
HexA == 1            \* hex "a"
HexB == 2            \* hex "b"
HexNumeric == 7      \* a hex field holding the JSON number 7 (not a string)
FallbackIds == {11, 12}   \* `FLIGHT${Math.random()...}` strings
DummyBase == 1000    \* DUMMY000 is 1000, DUMMY001 is 1001, ...

\* ------------------------------------------------------------------- state
VARIABLES
    mounted,            \* the component using the hook is mounted
    useDummyData,       \* the hook's argument at the last render
    flights,            \* useState: the Entity Store
    loading,            \* useState
    error,              \* useState: NULL or the message
    trailsRef,          \* useRef: id -> trail
    lastApiDataRef,     \* useRef: id -> kinematic anchor
    animationFrameRef,  \* TRUE while a requestAnimationFrame callback is pending
    interval,           \* TRUE while the setInterval timer is armed
    inflight,           \* requests sent and not yet answered, by issue number
    issued,             \* number of requests sent so far
    now,                \* Date.now(), in seconds
    last,               \* the handler that ran last and what it was given
    merged,             \* issue numbers of the cycles that reached line 252
    pushed,             \* id -> every point pushed on its trail, in order
    searchQuery,        \* useState of the App: the text of the search box
    airports,           \* the reference airports the App searches
    queued,             \* the `now` of a frame whose updater has not run yet
    showTimeout,        \* useState of SessionTimeout: the overlay is rendered
    timeoutRef,         \* useRef: the id setTimeout returned last, 0 before
    lastActivityRef,    \* useRef: Date.now() at the last resetTimer
    timers,             \* the timeouts pending in the browser, [id, due]
    created,            \* number of timeouts created so far
    handlerSees         \* showTimeout in the closure of the installed
                        \* activityHandler, also the dependency of the last
                        \* run of the effect

\* the state of the App around the hook, and the updater React has queued
sessionVars == <<showTimeout, timeoutRef, lastActivityRef, timers, created,
                 handlerSees>>
appVars == <<searchQuery, airports, queued, sessionVars>>

vars == <<mounted, useDummyData, flights, loading, error, trailsRef,
          lastApiDataRef, animationFrameRef, interval, inflight, issued, now,
          last, merged, pushed, searchQuery, airports, queued, showTimeout,
          timeoutRef, lastActivityRef, timers, created, handlerSees>>

\* ------------------------------------------------------- upstream records
\* One element of data.response.  `null` marks a JSON null in the array.
Raw(hex, reg, lng, lat, status, speed, dir) ==
    [null |-> FALSE, hex |-> hex, reg |-> reg, lng |-> lng, lat |-> lat,
     status |-> status, speed |-> speed, dir |-> dir]

NullElement == [null |-> TRUE, hex |-> JUndef, reg |-> JUndef, lng |-> JUndef,
                lat |-> JUndef, status |-> "", speed |-> JUndef, dir |-> JUndef]

\* a || b: strings here are non-empty and numbers non-zero when present
Truthy(x) == x.t \in {"str", "num", "numstr"}

\* flight.lng of a null element: TypeError (line 186)
FilterThrows(flight) == flight.null

\* lines 185-192: must have position and be in flight
AcceptRecord(flight) ==
    /\ flight.lng.t # "null"
    /\ flight.lat.t # "null"
    /\ flight.status = "en-route"

\* Array.prototype.filter with AcceptRecord over s[i..], keeping order
SelectSeq2(s, i) == SelectSeq(SubSeq(s, i, Len(s)), AcceptRecord)

\* variant of Slice: no cap
Slice_NoCap(s, n) == s

\* .slice(0, n)
Slice(s, n) == IF Len(s) <= n THEN s ELSE SubSeq(s, 1, n)

\* line 195: flight.hex || flight.reg_number || `FLIGHT${Math.random()...}`
Icao24(flight, random) ==
    IF Truthy(flight.hex) THEN flight.hex.v
    ELSE IF Truthy(flight.reg) THEN flight.reg.v
    ELSE random

\* line 247: flight.reg_number || icao24.toUpperCase() throws a TypeError when
\* icao24 is not a string, which is when it came from a numeric hex field
MapThrows(flight) == ~Truthy(flight.reg) /\ flight.hex.t = "num"

\* obj[key] = value on a ref map
Put(m, k, val) == (k :> val) @@ m

\* variant of ShouldPush: any change of position counts
ShouldPush_AnyChange(currentTrail, lng, lat) ==
    \/ Len(currentTrail) = 0
    \/ currentTrail[Len(currentTrail)] # <<lng, lat>>

\* variant of ShouldPush: the point must be off in both axes
ShouldPush_BothAxes(currentTrail, lng, lat) ==
    \/ Len(currentTrail) = 0
    \/ /\ AbsDiffGt(currentTrail[Len(currentTrail)][1], lng, TRAIL_EPSILON)
       /\ AbsDiffGt(currentTrail[Len(currentTrail)][2], lat, TRAIL_EPSILON)

\* lines 219-221: no last point, or it differs by more than epsilon in one axis
ShouldPush(currentTrail, lng, lat) ==
    \/ Len(currentTrail) = 0
    \/ AbsDiffGt(currentTrail[Len(currentTrail)][1], lng, TRAIL_EPSILON)
    \/ AbsDiffGt(currentTrail[Len(currentTrail)][2], lat, TRAIL_EPSILON)

\* variant of PushPoint: pop() in place of shift()
PushPoint_DropNewest(currentTrail, p) ==
    LET longer == Append(currentTrail, p)
    IN  IF Len(longer) > TRAIL_CAP THEN SubSeq(longer, 1, TRAIL_CAP) ELSE longer

\* lines 222-223: push, then shift once past the cap
PushPoint(currentTrail, p) ==
    LET longer == Append(currentTrail, p)
    IN  IF Len(longer) > TRAIL_CAP THEN Tail(longer) ELSE longer

\* lines 213-224
UpdateTrail(currentTrail, lng, lat) ==
    IF ShouldPush(currentTrail, lng, lat)
    THEN PushPoint(currentTrail, <<lng, lat>>)
    ELSE currentTrail

\* a coordinate as displayed: at + num / DISP_DEN (in 1e-4 degrees)
Disp(at, num) == [at |-> at, num |-> num]

\* lines 229-249, the fields the engine uses
MakeFlight(icao24, lng, lat, velocity, heading, trail) ==
    [icao24 |-> icao24, longitude |-> lng, latitude |-> lat,
     interpolatedLng |-> Disp(lng, 0), interpolatedLat |-> Disp(lat, 0),
     velocity |-> velocity, heading |-> heading, trail |-> trail]

\* lines 195-249 for one kept record: the writes to lastApiDataRef and
\* trailsRef, then the entity, or the throw of line 247 after the writes.
\* `st` is what the records before it left: the entities made, the two ref
\* maps and the <<id, point>> pairs pushed on trails, in order.
MapOne(flight, random, t, st) ==
    LET icao24 == Icao24(flight, random)
        lng == ParseFloat(flight.lng)
        lat == ParseFloat(flight.lat)
        velocity == OrZero(ParseFloat(flight.speed))
        heading == OrZero(ParseFloat(flight.dir))
        api1 == Put(st.api, icao24,
                    [lng |-> lng, lat |-> lat,
                     velocity |-> velocity * KNOT_MICRO,
                     heading |-> heading, timestamp |-> t])
        currentTrail == IF icao24 \in DOMAIN st.trails
                        THEN st.trails[icao24] ELSE <<>>
        newTrail == UpdateTrail(currentTrail, lng, lat)
        trails1 == Put(st.trails, icao24, newTrail)
        pushes1 == IF ShouldPush(currentTrail, lng, lat)
                   THEN Append(st.pushes, <<icao24, <<lng, lat>>>>)
                   ELSE st.pushes
    IN  [thrown |-> MapThrows(flight),
         flights |-> IF MapThrows(flight) THEN st.flights
                     ELSE Append(st.flights,
                                 MakeFlight(icao24, lng, lat, velocity,
                                            heading, newTrail)),
         api |-> api1, trails |-> trails1, pushes |-> pushes1]

\* lines 194-250: the .map callback run over recs[i..j] in order; a throw
\* ends it and leaves the writes made so far. The range is halved so that the
\* evaluation stays shallow on long responses.
RECURSIVE MapFlights(_, _, _, _, _, _)
MapFlights(recs, random, t, i, j, st) ==
    IF st.thrown \/ i > j THEN st
    ELSE IF i = j THEN MapOne(recs[i], random[i], t, st)
    ELSE LET mid == (i + j) \div 2
             left == MapFlights(recs, random, t, i, mid, st)
         IN  MapFlights(recs, random, t, mid + 1, j, left)

\* nothing mapped yet
MapStart(api, trails) ==
    [thrown |-> FALSE, flights |-> <<>>, api |-> api, trails |-> trails,
     pushes |-> <<>>]

\* m restricted to the keys in ids
Restrict(m, ids) == [x \in DOMAIN m \cap ids |-> m[x]]

\* variant of MapRecords: the refs keep only the ids of this snapshot
MapRecords_Evicting(recs, random, t, api, trails) ==
    LET m == MapFlights(recs, random, t, 1, Len(recs), MapStart(api, trails))
        seen == {m.flights[i].icao24 : i \in 1..Len(m.flights)}
    IN  [m EXCEPT !.api = Restrict(m.api, seen),
                  !.trails = Restrict(m.trails, seen)]

\* lines 184-250: .map over the kept records, from the first one
MapRecords(recs, random, t, api, trails) ==
    MapFlights(recs, random, t, 1, Len(recs), MapStart(api, trails))

\* ------------------------------------------------------------ fetchFlights
\* What one request comes back with: a rejected fetch, a non-OK status, a body
\* that is not JSON, a body without `response`, or a body with the array.
Outcome(kind, response) == [kind |-> kind, response |-> response]

NoDataMessage == "Connection issue: No flight data available from backend"

\* err.message of each way to reach the catch block (lines 257-261)
ErrorMessage(kind) ==
    CASE kind = "network" -> "Connection issue: Failed to fetch"
      [] kind = "http" -> "Connection issue: Backend API Error"
      [] kind = "parse" -> "Connection issue: Unexpected token"
      [] kind = "nodata" -> NoDataMessage
      [] kind = "filter" -> "Connection issue: Cannot read properties of null"
      [] kind = "map" -> "Connection issue: icao24.toUpperCase is not a function"

Failed(kind, api, trails) ==
    [ok |-> FALSE, error |-> ErrorMessage(kind), flights |-> <<>>,
     api |-> api, trails |-> trails, pushes |-> <<>>]

\* lines 166-262 from the resolved request to the end of try or catch: the
\* fields of the result are what the body hands to setFlights and setError
\* and what it leaves in the two refs.
FetchFlights(out, random, t, api, trails) ==
    IF out.kind \in {"network", "http", "parse"}
    THEN Failed(out.kind, api, trails)
    ELSE IF out.kind = "noresponse" \/ Len(out.response) = 0
    THEN Failed("nodata", api, trails)
    ELSE IF \E i \in 1..Len(out.response) : FilterThrows(out.response[i])
    THEN Failed("filter", api, trails)
    ELSE LET kept == Slice(SelectSeq2(out.response, 1), MAX_FLIGHTS)
             m == MapRecords(kept, random, t, api, trails)
         IN  IF m.thrown
             THEN [ok |-> FALSE, error |-> ErrorMessage("map"),
                   flights |-> <<>>, api |-> m.api, trails |-> m.trails,
                   pushes |-> m.pushes]
             ELSE [ok |-> TRUE, error |-> NULL, flights |-> m.flights,
                   api |-> m.api, trails |-> m.trails, pushes |-> m.pushes]

\* variants of FlightsAfterFetch: a catch block that empties the store, a
\* guard that drops the response of a request older than one already merged,
\* and a merge that keeps the entities the snapshot lacks
FlightsAfterFetch_ClearOnError(req, res, prevFlights) ==
    IF res.ok THEN res.flights ELSE <<>>

FlightsAfterFetch_Sequenced(req, res, prevFlights) ==
    IF res.ok /\ \A q \in merged : q < req THEN res.flights ELSE prevFlights

FlightsAfterFetch_Union(req, res, prevFlights) ==
    IF res.ok
    THEN res.flights \o
         SelectSeq(prevFlights,
                   LAMBDA f : \A i \in 1..Len(res.flights) :
                                 res.flights[i].icao24 # f.icao24)
    ELSE prevFlights

\* line 252 against lines 257-261: the try block ends in setFlights(mapped),
\* the catch block calls no setFlights.  The issue number `req` of the cycle
\* plays no part: the code keeps no sequence number of its requests.
FlightsAfterFetch(req, res, prevFlights) ==
    IF res.ok THEN res.flights ELSE prevFlights

\* variant of ErrorAfterFetch: the try block without setError(null)
ErrorAfterFetch_Sticky(res, prevError) ==
    IF res.ok THEN prevError ELSE res.error

\* line 254 against line 259: setError(null) or setError(`Connection issue..`)
ErrorAfterFetch(res, prevError) ==
    IF res.ok THEN NULL ELSE res.error

\* ------------------------------------------------------------ interpolation
Sin(heading) ==
    CASE heading = 0 -> 0 [] heading = 90 -> 1
      [] heading = 180 -> 0 [] heading = 270 -> -1

Cos(heading) ==
    CASE heading = 0 -> 1 [] heading = 90 -> 0
      [] heading = 180 -> -1 [] heading = 270 -> 0

\* lines 103-120; velocity arrives in 1e-6 m/s, the result is the pair of
\* displayed coordinates start + sin|cos * velocity * elapsed / DISP_DEN
InterpolatePosition(startLng, startLat, velocity, heading, elapsedSeconds) ==
    IF velocity = 0
    THEN <<Disp(startLng, 0), Disp(startLat, 0)>>
    ELSE <<Disp(startLng, Sin(heading) * velocity * elapsedSeconds),
           Disp(startLat, Cos(heading) * velocity * elapsedSeconds)>>

\* variants of AnimateFlight: an updater without the staleness ceiling, and
\* one that moves the reported position along with the displayed one
AnimateFlight_NoCeiling(flight, api, t) ==
    IF flight.icao24 \notin DOMAIN api THEN flight
    ELSE LET lastKnown == api[flight.icao24]
             interp == InterpolatePosition(lastKnown.lng, lastKnown.lat,
                          lastKnown.velocity, lastKnown.heading,
                          t - lastKnown.timestamp)
         IN  [flight EXCEPT !.interpolatedLng = interp[1],
                            !.interpolatedLat = interp[2]]

AnimateFlight_MovesReported(flight, api, t) ==
    IF flight.icao24 \notin DOMAIN api THEN flight
    ELSE LET lastKnown == api[flight.icao24]
             elapsedSeconds == t - lastKnown.timestamp
         IN  IF elapsedSeconds > STALE_SECONDS THEN flight
             ELSE LET interp == InterpolatePosition(lastKnown.lng, lastKnown.lat,
                                  lastKnown.velocity, lastKnown.heading,
                                  elapsedSeconds)
                  IN  [flight EXCEPT !.interpolatedLng = interp[1],
                                     !.interpolatedLat = interp[2],
                                     !.longitude = lastKnown.lng,
                                     !.latitude = lastKnown.lat,
                                     !.heading = lastKnown.heading]

\* lines 128-151: the updater of one flight
AnimateFlight(flight, api, t) ==
    IF flight.icao24 \notin DOMAIN api THEN flight
    ELSE LET lastKnown == api[flight.icao24]
             elapsedSeconds == t - lastKnown.timestamp
         IN  IF elapsedSeconds > STALE_SECONDS THEN flight
             ELSE LET interp == InterpolatePosition(lastKnown.lng, lastKnown.lat,
                                  lastKnown.velocity, lastKnown.heading,
                                  elapsedSeconds)
                  IN  [flight EXCEPT !.interpolatedLng = interp[1],
                                     !.interpolatedLat = interp[2]]

\* ------------------------------------------------------------ dummy flights
\* lines 54-91: DUMMY_COUNT flights; the random draws are enumerated by a seed
DummySeeds == {0, 500000}

GenerateDummyFlights(seed) ==
    [i \in 1..DUMMY_COUNT |->
        LET lng == Num(seed + (i - 1) * 1000)
            lat == Num((i - 1) * 100)
        IN  MakeFlight(DummyBase + (i - 1), lng, lat, 400 + i, 90, <<<<lng, lat>>>>)]

\* ------------------------------------------------------------------ search
\* The searchResults memo of the App (lines 72-144). A string is a sequence of
\* characters; an optional field is absent or holds a string.
SEARCH_TOP == 5

Some(str) == [some |-> TRUE, s |-> str]
Absent == [some |-> FALSE, s |-> << >>]

\* one character of String.prototype.toLowerCase
LowerChar(c) ==
    CASE c = "A" -> "a" [] c = "B" -> "b" [] c = "C" -> "c" [] c = "W" -> "w"
      [] OTHER -> c

ToLowerCase(str) == [i \in 1..Len(str) |-> LowerChar(str[i])]

\* String.prototype.trim: whitespace leaves both ends
RECURSIVE Trim(_)
Trim(str) ==
    IF Len(str) = 0 THEN str
    ELSE IF str[1] = " " THEN Trim(Tail(str))
    ELSE IF str[Len(str)] = " " THEN Trim(SubSeq(str, 1, Len(str) - 1))
    ELSE str

StartsWith(str, q) == Len(q) <= Len(str) /\ SubSeq(str, 1, Len(q)) = q

Includes(str, q) ==
    \E i \in 0..(Len(str) - Len(q)) : SubSeq(str, i + 1, i + Len(q)) = q

\* x?.toLowerCase() || ''
LowerOr(x) == IF x.some THEN ToLowerCase(x.s) ELSE << >>

Points(cond, n) == IF cond THEN n ELSE 0

\* variant of FlightScore: a callsign that starts with the query earns the
\* prefix weight alone
FlightScore_PrefixAlone(f, q) ==
    LET callsign == ToLowerCase(f.callsign)
        icao == ToLowerCase(f.icao24)
        airline == LowerOr(f.airline)
        country == ToLowerCase(f.origin_country)
        origin == LowerOr(f.origin)
        dest == LowerOr(f.destination)
    IN  Points(callsign = q, 100)
        + Points(icao = q, 100)
        + Points(origin = q \/ dest = q, 90)
        + Points(StartsWith(callsign, q), 50)
        + Points(StartsWith(icao, q), 50)
        + Points(StartsWith(airline, q), 40)
        + Points(Includes(callsign, q) /\ ~StartsWith(callsign, q), 20)
        + Points(Includes(airline, q), 15)
        + Points(Includes(country, q), 10)
        + Points(Includes(origin, q) \/ Includes(dest, q), 25)

\* lines 78-103: the score of one flight
FlightScore(f, q) ==
    LET callsign == ToLowerCase(f.callsign)
        icao == ToLowerCase(f.icao24)
        airline == LowerOr(f.airline)
        country == ToLowerCase(f.origin_country)
        origin == LowerOr(f.origin)
        dest == LowerOr(f.destination)
    IN  Points(callsign = q, 100)
        + Points(icao = q, 100)
        + Points(origin = q \/ dest = q, 90)
        + Points(StartsWith(callsign, q), 50)
        + Points(StartsWith(icao, q), 50)
        + Points(StartsWith(airline, q), 40)
        + Points(Includes(callsign, q), 20)
        + Points(Includes(airline, q), 15)
        + Points(Includes(country, q), 10)
        + Points(Includes(origin, q) \/ Includes(dest, q), 25)

\* variant of AirportScore: no weight for a query equal to a code
AirportScore_NoExact(a, q) ==
    LET iata == LowerOr(a.iata)
        icao == LowerOr(a.icao)
        name == LowerOr(a.name)
        city == LowerOr(a.city)
        country == LowerOr(a.country)
    IN  Points(StartsWith(iata, q), 80)
        + Points(StartsWith(icao, q), 80)
        + Points(StartsWith(name, q), 60)
        + Points(StartsWith(city, q), 50)
        + Points(Includes(name, q), 30)
        + Points(Includes(city, q), 25)
        + Points(Includes(country, q), 15)

\* lines 112-136: the score of one airport
AirportScore(a, q) ==
    LET iata == LowerOr(a.iata)
        icao == LowerOr(a.icao)
        name == LowerOr(a.name)
        city == LowerOr(a.city)
        country == LowerOr(a.country)
    IN  Points(iata = q \/ icao = q, 100)
        + Points(StartsWith(iata, q), 80)
        + Points(StartsWith(icao, q), 80)
        + Points(StartsWith(name, q), 60)
        + Points(StartsWith(city, q), 50)
        + Points(Includes(name, q), 30)
        + Points(Includes(city, q), 25)
        + Points(Includes(country, q), 15)

\* .filter(item => item.score > 0) over the scored items, keeping order; an
\* item is the position of its record in the array searched, and its score
Positive(items) ==
    LET IsPositive(item) == item.score > 0 IN SelectSeq(items, IsPositive)

\* variant of SortByScore: ascending
RECURSIVE SortByScore_Ascending(_)
SortByScore_Ascending(items) ==
    IF Len(items) = 0 THEN items
    ELSE LET item == items[Len(items)]
             sorted == SortByScore_Ascending(SubSeq(items, 1, Len(items) - 1))
             before == Cardinality({k \in 1..Len(sorted) :
                                      sorted[k].score <= item.score})
         IN  SubSeq(sorted, 1, before) \o <<item>>
             \o SubSeq(sorted, before + 1, Len(sorted))

\* variant of SortByScore: descending, but an item goes before its equals
RECURSIVE SortByScore_Unstable(_)
SortByScore_Unstable(items) ==
    IF Len(items) = 0 THEN items
    ELSE LET item == items[Len(items)]
             sorted == SortByScore_Unstable(SubSeq(items, 1, Len(items) - 1))
             before == Cardinality({k \in 1..Len(sorted) :
                                      sorted[k].score > item.score})
         IN  SubSeq(sorted, 1, before) \o <<item>>
             \o SubSeq(sorted, before + 1, Len(sorted))

\* .sort((a, b) => b.score - a.score): descending by score, and stable
RECURSIVE SortByScore(_)
SortByScore(items) ==
    IF Len(items) = 0 THEN items
    ELSE LET item == items[Len(items)]
             sorted == SortByScore(SubSeq(items, 1, Len(items) - 1))
             before == Cardinality({k \in 1..Len(sorted) :
                                      sorted[k].score >= item.score})
         IN  SubSeq(sorted, 1, before) \o <<item>>
             \o SubSeq(sorted, before + 1, Len(sorted))

\* lines 77-108: map, filter, sort, slice; the positions of the flights kept
FlightRanking(q, fs) ==
    LET items == [i \in 1..Len(fs) |-> [at |-> i, score |-> FlightScore(fs[i], q)]]
    IN  Slice(SortByScore(Positive(items)), SEARCH_TOP)

\* lines 111-141, likewise for the airports
AirportRanking(q, as) ==
    LET items == [i \in 1..Len(as) |-> [at |-> i, score |-> AirportScore(as[i], q)]]
    IN  Slice(SortByScore(Positive(items)), SEARCH_TOP)

\* lines 72-144: the rankings the memo computes for a query; the lists it
\* returns hold the records at these positions
Rankings(query, fs, as) ==
    IF Len(query) < 1
    THEN [flights |-> << >>, airports |-> << >>]
    ELSE LET q == Trim(ToLowerCase(query))
         IN  [flights |-> FlightRanking(q, fs),
              airports |-> AirportRanking(q, as)]

SearchResults(query, fs, as) ==
    LET r == Rankings(query, fs, as)
    IN  [flights |-> [k \in 1..Len(r.flights) |-> fs[r.flights[k].at]],
         airports |-> [k \in 1..Len(r.airports) |-> as[r.airports[k].at]]]

\* ------------------------------------------------------------------ inputs
RecA0 == Raw(JStr(HexA), JUndef, JNum(100000), JNum(200000), "en-route", JNum(10), JNum(90))
RecA1 == Raw(JStr(HexA), JUndef, JNum(100001), JNum(200001), "en-route", JNum(10), JNum(90))
RecA2 == Raw(JStr(HexA), JUndef, JNum(100100), JNum(200100), "en-route", JNum(10), JNum(90))
RecB == Raw(JStr(HexB), JUndef, JNum(50000), JNum(60000), "en-route", JNum(0), JNum(0))
RecAEast == Raw(JStr(HexA), JUndef, JNum(100100), JNum(200000), "en-route", JNum(10), JNum(90))
RecANorth == Raw(JStr(HexA), JUndef, JNum(100000), JNum(200100), "en-route", JNum(10), JNum(0))
RecB2 == Raw(JStr(HexB), JUndef, JNum(50100), JNum(60100), "en-route", JNum(0), JNum(0))
RecNoLng == Raw(JStr(HexB), JUndef, JUndef, JNum(60000), "en-route", JNum(0), JNum(0))
RecTextLat == Raw(JStr(HexB), JUndef, JNum(50000), JText, "en-route", JNum(0), JNum(0))
RecNullPos == Raw(JStr(HexA), JUndef, JNull, JNum(200000), "en-route", JNum(10), JNum(90))
RecLanded == Raw(JStr(HexB), JUndef, JNum(50000), JNum(60000), "landed", JNum(0), JNum(0))
RecNumericHex == Raw(JNum(HexNumeric), JUndef, JNum(50000), JNum(60000), "en-route", JNum(0), JNum(0))
RecAnon == Raw(JUndef, JUndef, JNum(50000), JNum(60000), "en-route", JNum(0), JNum(0))

RawRecords == {RecA0, RecA1, RecA2, RecB, RecNullPos, RecLanded,
               RecNumericHex, RecAnon, NullElement}

\* the upstream responses of the model
Snapshots ==
    { <<>>, <<RecA0>>, <<RecA1>>, <<RecA2>>, <<RecB>>, <<RecA0, RecB>>,
      <<RecLanded>>, <<RecNullPos, RecLanded>>, <<RecA2, RecNumericHex>> }

MaxSnapLen == 2

Outcomes ==
    {Outcome(k, <<>>) : k \in {"network", "http", "parse", "noresponse"}}
    \cup {Outcome("json", resp) : resp \in Snapshots}

\* line 195 calls Math.random() for a kept record without hex and reg_number
NeedsRandom(resp) ==
    \E i \in 1..Len(resp) :
        /\ ~resp[i].null
        /\ AcceptRecord(resp[i])
        /\ ~Truthy(resp[i].hex)
        /\ ~Truthy(resp[i].reg)

NoRandom == [i \in 1..MaxSnapLen |-> 0]

\* the draws of Math.random(), one per kept record
Randoms(out) ==
    IF NeedsRandom(out.response)
    THEN [1..MaxSnapLen -> FallbackIds]
    ELSE {NoRandom}

NoOutcome == Outcome("none", <<>>)
\* no updater is waiting for a render
NoTick == -1
Ran(op, req, out, random) == [op |-> op, req |-> req, out |-> out, random |-> random]

\* SessionTimeout.tsx lines 7-9, 30-46: the component after its first render
\* and effect: the listeners are installed and the first timeout is pending
SessionMount ==
    /\ showTimeout = FALSE
    /\ handlerSees = FALSE
    /\ lastActivityRef = 0
    /\ timers = {[id |-> 1, due |-> SESSION_TIMEOUT]}
    /\ timeoutRef = 1
    /\ created = 1

\* the state after the first render and its effects (lines 94-100, 157, 264-282)
Mount(modes) ==
    /\ mounted = TRUE
    /\ useDummyData \in modes
    /\ loading = ~useDummyData
    /\ error = NULL
    /\ trailsRef = << >>
    /\ lastApiDataRef = << >>
    /\ animationFrameRef = TRUE
    /\ interval = ~useDummyData
    /\ IF useDummyData
       THEN /\ \E seed \in DummySeeds : flights = GenerateDummyFlights(seed)
            /\ inflight = {}
            /\ issued = 0
       ELSE /\ flights = << >>
            /\ inflight = {1}
            /\ issued = 1
    /\ now = 0
    /\ last = Ran("mount", 0, NoOutcome, NoRandom)
    /\ merged = {}
    /\ pushed = << >>
    /\ searchQuery = << >>
    /\ airports = << >>
    /\ queued = NoTick
    /\ SessionMount

\* time passes
Advance(maxClock, step) ==
    /\ now < maxClock
    /\ now' = now + step
    /\ last' = Ran("advance", 0, NoOutcome, NoRandom)
    /\ UNCHANGED <<mounted, useDummyData, flights, loading, error, trailsRef,
                   lastApiDataRef, animationFrameRef, interval, inflight,
                   issued, merged, pushed>>
    /\ UNCHANGED appVars

\* lines 124-155: one animation frame
Animate ==
    /\ animationFrameRef
    /\ flights' = [i \in 1..Len(flights) |->
                      AnimateFlight(flights[i], lastApiDataRef, now)]
    /\ last' = Ran("animate", 0, NoOutcome, NoRandom)
    /\ UNCHANGED <<mounted, useDummyData, loading, error, trailsRef,
                   lastApiDataRef, animationFrameRef, interval, inflight,
                   issued, now, merged, pushed>>
    /\ UNCHANGED appVars

\* lines 125-126, 128, 154: the frame callback reads the clock and hands
\* setFlights an updater, which React runs at the next render; the promise
\* continuation of a fetch can run before that render
AnimateCapture ==
    /\ animationFrameRef
    /\ queued = NoTick
    /\ queued' = now
    /\ last' = Ran("frame", 0, NoOutcome, NoRandom)
    /\ UNCHANGED <<mounted, useDummyData, flights, loading, error, trailsRef,
                   lastApiDataRef, animationFrameRef, interval, inflight,
                   issued, now, merged, pushed, searchQuery, airports>>
    /\ UNCHANGED sessionVars

\* lines 128-152: the render runs the queued updater, which reads the cache
\* as it is now and the `now` its frame captured; the updater of an
\* unmounted component is dropped
AnimateUpdate ==
    /\ queued # NoTick
    /\ queued' = NoTick
    /\ flights' = IF mounted
                  THEN [i \in 1..Len(flights) |->
                           AnimateFlight(flights[i], lastApiDataRef, queued)]
                  ELSE flights
    /\ last' = Ran("render", 0, NoOutcome, NoRandom)
    /\ UNCHANGED <<mounted, useDummyData, loading, error, trailsRef,
                   lastApiDataRef, animationFrameRef, interval, inflight,
                   issued, now, merged, pushed, searchQuery, airports>>
    /\ UNCHANGED sessionVars

\* line 279: the interval timer calls fetchFlights, which sends a request
\* (line 169) and suspends
IntervalFire(maxFetches, maxInFlight) ==
    /\ interval
    /\ issued < maxFetches
    /\ Cardinality(inflight) < maxInFlight
    /\ issued' = issued + 1
    /\ inflight' = inflight \cup {issued + 1}
    /\ last' = Ran("request", issued + 1, NoOutcome, NoRandom)
    /\ UNCHANGED <<mounted, useDummyData, flights, loading, error, trailsRef,
                   lastApiDataRef, animationFrameRef, interval, now, merged,
                   pushed>>
    /\ UNCHANGED appVars

\* hist[id] gets the points of `pushes` for that id appended, in order
Record(hist, pushes) ==
    LET ids == {pushes[k][1] : k \in 1..Len(pushes)}
        PointsOf(id) ==
            LET IsOf(p) == p[1] = id
                mine == SelectSeq(pushes, IsOf)
            IN  [k \in 1..Len(mine) |-> mine[k][2]]
    IN  [id \in DOMAIN hist \cup ids |->
            (IF id \in DOMAIN hist THEN hist[id] ELSE <<>>)
            \o (IF id \in ids THEN PointsOf(id) ELSE <<>>)]

\* lines 169-261: request `req` is answered and fetchFlights runs to its end.
\* The refs are written whether or not the component is still mounted; the
\* state setters of an unmounted component do nothing.
ResolveFetch(req, out, random) ==
    /\ req \in inflight
    /\ inflight' = inflight \ {req}
    /\ LET res == FetchFlights(out, random, now, lastApiDataRef, trailsRef)
       IN  /\ lastApiDataRef' = res.api
           /\ trailsRef' = res.trails
           /\ pushed' = Record(pushed, res.pushes)
           /\ merged' = IF res.ok THEN merged \cup {req} ELSE merged
           /\ last' = Ran(IF res.ok THEN "merge" ELSE "error", req, out, random)
           /\ IF mounted
              THEN /\ flights' = FlightsAfterFetch(req, res, flights)
                   /\ loading' = FALSE
                   /\ error' = ErrorAfterFetch(res, error)
              ELSE UNCHANGED <<flights, loading, error>>
    /\ UNCHANGED <<mounted, useDummyData, animationFrameRef, interval, issued,
                   now>>
    /\ UNCHANGED appVars

\* lines 264-282: the hook is rendered with the other value of useDummyData;
\* the previous effect's cleanup runs (line 280), then the effect
SetMode(maxFetches, maxInFlight) ==
    /\ mounted
    /\ useDummyData' = ~useDummyData
    /\ IF useDummyData'
       THEN /\ \E seed \in DummySeeds : flights' = GenerateDummyFlights(seed)
            /\ loading' = FALSE
            /\ error' = NULL
            /\ interval' = FALSE
            /\ UNCHANGED <<inflight, issued>>
       ELSE /\ issued < maxFetches
            /\ Cardinality(inflight) < maxInFlight
            /\ flights' = << >>
            /\ loading' = TRUE
            /\ interval' = TRUE
            /\ issued' = issued + 1
            /\ inflight' = inflight \cup {issued + 1}
            /\ UNCHANGED error
    /\ last' = Ran("mode", 0, NoOutcome, NoRandom)
    /\ UNCHANGED <<mounted, trailsRef, lastApiDataRef, animationFrameRef, now,
                   merged, pushed>>
    /\ UNCHANGED appVars

\* lines 159-163 and 280: both effect cleanups
Unmount ==
    /\ mounted
    /\ mounted' = FALSE
    /\ animationFrameRef' = FALSE
    /\ interval' = FALSE
    /\ last' = Ran("unmount", 0, NoOutcome, NoRandom)
    /\ UNCHANGED <<useDummyData, flights, loading, error, trailsRef,
                   lastApiDataRef, inflight, issued, now, merged, pushed>>
    /\ UNCHANGED appVars

\* ------------------------------------------------- a consumer of the hook
\* Line 242, `trail: [...currentTrail]`, makes a new array that holds the
\* same point objects as the internal trail: every [lng, lat] array made at
\* line 222 is reachable from trailsRef and from each copy taken since. The
\* model keeps values, so identity is read off positions: as long as nothing
\* was shifted out of the trail of an id (line 223 never ran for it), element
\* k of the trail and element k of every copy are the k-th array pushed. A
\* point the consumer builds itself carries a third component, and the
\* consumer removes elements from the end only, so the elements of a copy that
\* have two components are still the ones the hook put there.
MaxConsumerLen == 3

ConsumerPoint == <<Num(0), Num(0), "consumer">>

NeverShifted(id) ==
    /\ id \in DOMAIN trailsRef
    /\ id \in DOMAIN pushed
    /\ Len(pushed[id]) = Len(trailsRef[id])

\* the point object written through copy element k: the same object wherever
\* it is held
WritePoint(p, axis, v) == [p EXCEPT ![axis] = v]

\* trail.push(p), trail.pop() or trail[k] = p on the array of entity i
ConsumerEditsArray(i, kind, k) ==
    /\ mounted
    /\ i \in 1..Len(flights)
    /\ LET trail == flights[i].trail
           edited ==
             CASE kind = "push" -> Append(trail, ConsumerPoint)
               [] kind = "pop" -> SubSeq(trail, 1, Len(trail) - 1)
               [] kind = "replace" -> [trail EXCEPT ![k] = ConsumerPoint]
       IN  /\ kind = "push" => Len(trail) < MaxConsumerLen
           /\ kind = "pop" => Len(trail) > 0
           /\ kind = "replace" => k \in 1..Len(trail)
           /\ kind # "replace" => k = 1
           /\ edited # trail
           /\ flights' = [flights EXCEPT ![i].trail = edited]
    /\ last' = Ran("consumer", 0, NoOutcome, NoRandom)
    /\ UNCHANGED <<mounted, useDummyData, loading, error, trailsRef,
                   lastApiDataRef, animationFrameRef, interval, inflight,
                   issued, now, merged, pushed>>
    /\ UNCHANGED appVars

\* trail[k][axis] = v on the array of entity i, where element k is a point
\* the hook pushed
ConsumerWritesPoint(i, k, axis, v) ==
    /\ mounted
    /\ i \in 1..Len(flights)
    /\ k \in 1..Len(flights[i].trail)
    /\ Len(flights[i].trail[k]) = 2
    /\ flights[i].trail[k][axis] # v
    /\ LET id == flights[i].icao24
           holds(trail) == k <= Len(trail) /\ Len(trail[k]) = 2
           written(trail) ==
             IF holds(trail)
             THEN [trail EXCEPT ![k] = WritePoint(trail[k], axis, v)]
             ELSE trail
       IN  /\ NeverShifted(id)
           /\ flights' = [j \in 1..Len(flights) |->
                            IF flights[j].icao24 = id
                            THEN [flights[j] EXCEPT
                                    !.trail = written(flights[j].trail)]
                            ELSE flights[j]]
           /\ trailsRef' = [trailsRef EXCEPT ![id] = written(trailsRef[id])]
    /\ last' = Ran("consumer", 0, NoOutcome, NoRandom)
    /\ UNCHANGED <<mounted, useDummyData, loading, error, lastApiDataRef,
                   animationFrameRef, interval, inflight, issued, now, merged,
                   pushed>>
    /\ UNCHANGED appVars

\* ------------------------------------------------------ SessionTimeout
\* what the flights hook holds, which SessionTimeout never touches
hookVars == <<mounted, useDummyData, flights, loading, error, trailsRef,
              lastApiDataRef, animationFrameRef, interval, inflight, issued,
              merged, pushed, searchQuery, airports, queued>>

\* clearTimeout(id) on the pending timeouts ts; `if (timeoutRef.current)` is
\* false for the undefined the ref starts with
ClearTimeout(ts, id) == {t \in ts : t.id # id}

\* lines 11-24: resetTimer, run with the timeouts ts pending
ResetTimer(ts, maxTimers) ==
    /\ created < maxTimers
    /\ lastActivityRef' = now
    /\ showTimeout' = FALSE
    /\ timers' = ClearTimeout(ts, timeoutRef)
                    \cup {[id |-> created + 1, due |-> now + SESSION_TIMEOUT]}
    /\ timeoutRef' = created + 1
    /\ created' = created + 1

\* lines 34-38: one of the six document events reaches activityHandler
Activity(maxTimers) ==
    /\ IF ~handlerSees
       THEN ResetTimer(timers, maxTimers) /\ UNCHANGED handlerSees
       ELSE UNCHANGED sessionVars
    /\ last' = Ran("activity", 0, NoOutcome, NoRandom)
    /\ UNCHANGED <<hookVars, now>>

\* lines 21-23: a pending timeout is due and its callback runs
TimerFires ==
    /\ \E t \in timers :
           /\ t.due <= now
           /\ timers' = timers \ {t}
    /\ showTimeout' = TRUE
    /\ last' = Ran("timeout", 0, NoOutcome, NoRandom)
    /\ UNCHANGED <<timeoutRef, lastActivityRef, created, handlerSees>>
    /\ UNCHANGED <<hookVars, now>>

\* lines 30-57: showTimeout differs from the dependency of the last run, so
\* the cleanup of that run (lines 49-56) and then the effect run: the new
\* activityHandler closes over the new showTimeout and line 46 calls
\* resetTimer
RunEffect(maxTimers) ==
    /\ showTimeout # handlerSees
    /\ handlerSees' = showTimeout
    /\ ResetTimer(ClearTimeout(timers, timeoutRef), maxTimers)
    /\ last' = Ran("effect", 0, NoOutcome, NoRandom)
    /\ UNCHANGED <<hookVars, now>>

\* lines 26-28: window.location.reload() starts the component afresh; the
\* timeouts of the old page are gone
Reload(maxTimers) ==
    /\ created < maxTimers
    /\ showTimeout' = FALSE
    /\ handlerSees' = FALSE
    /\ lastActivityRef' = now
    /\ timers' = {[id |-> created + 1, due |-> now + SESSION_TIMEOUT]}
    /\ timeoutRef' = created + 1
    /\ created' = created + 1
    /\ last' = Ran("reload", 0, NoOutcome, NoRandom)
    /\ UNCHANGED <<hookVars, now>>

\* --------------------------------------------------------------- the App
\* line 190: onChange={(e) => setSearchQuery(e.target.value)}
TypeQuery(queries) ==
    /\ \E q \in queries : searchQuery' = q
    /\ UNCHANGED <<mounted, useDummyData, flights, loading, error, trailsRef,
                   lastApiDataRef, animationFrameRef, interval, inflight,
                   issued, now, last, merged, pushed, airports, queued>>
    /\ UNCHANGED sessionVars

\* line 15: the hook hands the App a new flights array
StoreArrives(stores) ==
    /\ mounted
    /\ \E fs \in stores : flights' = fs
    /\ loading' = FALSE
    /\ UNCHANGED <<mounted, useDummyData, error, trailsRef, lastApiDataRef,
                   animationFrameRef, interval, inflight, issued, now, last,
                   merged, pushed, searchQuery, airports, queued>>
    /\ UNCHANGED sessionVars

\* line 16: useAirports hands the App its airports
AirportsArrive(sets) ==
    /\ \E as \in sets : airports' = as
    /\ UNCHANGED <<mounted, useDummyData, flights, loading, error, trailsRef,
                   lastApiDataRef, animationFrameRef, interval, inflight,
                   issued, now, last, merged, pushed, searchQuery, queued>>
    /\ UNCHANGED sessionVars

ResolveIn(outcomes) ==
    \E req \in inflight, out \in outcomes : \E random \in Randoms(out) :
        ResolveFetch(req, out, random)

\* ---------------------------------------------------------- specifications
\* The engine in live mode (useDummyData keeps its default, false).
Init == Mount({FALSE})

Tick == Advance(MaxClock, ClockStep)

Poll == IntervalFire(MaxFetches, MaxInFlight)

Resolve == ResolveIn(Outcomes)

Next == Tick \/ Animate \/ Poll \/ Resolve \/ Unmount

Spec == Init /\ [][Next]_vars

\* The trail of one id over many cycles, one request at a time, so that the
\* cap of TRAIL_CAP points is passed.
TrailOutcomes == {Outcome("json", <<RecA0>>), Outcome("json", <<RecA2>>)}

PollTrail == IntervalFire(MaxTrailFetches, 1)

ResolveTrail == ResolveIn(TrailOutcomes)

NextTrail == PollTrail \/ ResolveTrail

SpecTrail == Init /\ [][NextTrail]_vars

\* The hook with its argument changing between renders.
InitMode == Mount(BOOLEAN)

Switch == SetMode(MaxFetches, MaxInFlight)

NextMode == Tick \/ Animate \/ Poll \/ Resolve \/ Switch \/ Unmount

SpecMode == InitMode /\ [][NextMode]_vars

\* The hook and a consumer that changes the trail it was handed.
ConsumerOutcomes ==
    {Outcome("network", <<>>), Outcome("json", <<RecA0>>),
     Outcome("json", <<RecA2>>)}

ResolveConsumer == ResolveIn(ConsumerOutcomes)

EditArray ==
    \E i \in 1..Len(flights), kind \in {"push", "pop", "replace"},
       k \in 1..MaxConsumerLen : ConsumerEditsArray(i, kind, k)

EditPoint ==
    \E i \in 1..Len(flights), k \in 1..MaxConsumerLen, axis \in {1, 2} :
        ConsumerWritesPoint(i, k, axis, Num(0))

NextConsumer == Poll \/ ResolveConsumer \/ EditArray \/ EditPoint

SpecConsumer == Init /\ [][NextConsumer]_vars

\* The engine over a clock that passes the staleness ceiling, with moving and
\* stationary aircraft.
MaxAnimClock == 90
AnimClockStep == 45

AnimOutcomes ==
    {Outcome("network", <<>>), Outcome("json", <<RecA0>>),
     Outcome("json", <<RecB>>), Outcome("json", <<RecA0, RecB>>),
     Outcome("json", <<RecA2, RecNumericHex>>),
     Outcome("json", <<RecB2, RecNumericHex>>)}

TickAnim == Advance(MaxAnimClock, AnimClockStep)

ResolveAnim == ResolveIn(AnimOutcomes)

NextAnim == TickAnim \/ Animate \/ Poll \/ ResolveAnim

SpecAnim == Init /\ [][NextAnim]_vars

\* The engine fed a response longer than the cap: BigLen records with ids of
\* their own, every hundredth of them landed.
BigLen == 520
MaxCapFetches == 3

BigRecord(i) ==
    Raw(JStr(100 + i), JUndef, JNum(1000 * i), JNum(100 * i),
        IF i % 100 = 0 THEN "landed" ELSE "en-route", JNum(10), JNum(90))

BigSnapshot == [i \in 1..BigLen |-> BigRecord(i)]

CapOutcomes ==
    {Outcome("network", <<>>), Outcome("json", <<RecA0>>),
     Outcome("json", <<RecA0, RecB>>), Outcome("json", BigSnapshot)}

ResolveCap == ResolveIn(CapOutcomes)

PollCap == IntervalFire(MaxCapFetches, 1)

NextCap == PollCap \/ ResolveCap \/ Unmount

SpecCap == Init /\ [][NextCap]_vars

\* The engine fed responses with records that are malformed or repeat an id.
RecordOutcomes ==
    {Outcome("network", <<>>), Outcome("json", <<RecA0>>),
     Outcome("json", <<RecB>>), Outcome("json", <<RecA0, RecLanded>>),
     Outcome("json", <<RecA0, NullElement>>),
     Outcome("json", <<RecA0, RecNoLng>>),
     Outcome("json", <<RecTextLat>>),
     Outcome("json", <<RecA0, RecA2>>),
     Outcome("json", <<RecNullPos, RecB>>)}

ResolveRecords == ResolveIn(RecordOutcomes)

NextRecords == Poll \/ ResolveRecords \/ Unmount

SpecRecords == Init /\ [][NextRecords]_vars

\* The search box of the App over stores and airport sets of its own.
SFlight(callsign, icao24, airline, country, origin, destination) ==
    [callsign |-> callsign, icao24 |-> icao24, airline |-> airline,
     origin_country |-> country, origin |-> origin,
     destination |-> destination]

SAirport(iata, icao, name, city, country) ==
    [iata |-> iata, icao |-> icao, name |-> name, city |-> city,
     country |-> country]

SF1 == SFlight(<<"A", "B">>, <<"c", "a">>, Some(<<"a", "b", "c">>), <<"b">>,
               Some(<<"c">>), Some(<<"b">>))
SF2 == SFlight(<<"a", "b", "c">>, <<"c", "b">>, Absent, <<"A">>, Absent, Absent)
SF3 == SFlight(<<"c", "a", "b">>, <<"a", "b">>, Some(<<"B", "a">>), <<"c">>,
               Some(<<"a", "b">>), Some(<<"c">>))
SF4 == SFlight(<<"b">>, <<"b", "c">>, Some(<<"c">>), <<"c", "a">>, Absent,
               Some(<<"A", "B">>))
SF5 == SFlight(<<"c">>, <<"c", "c">>, Absent, <<"a", "b">>, Absent, Absent)
SF6 == SFlight(<<"b", "b">>, <<"b", "a">>, Some(<<"a">>), <<"b">>,
               Some(<<"b">>), Absent)
SF7 == SFlight(<<"c", "c">>, <<"c">>, Absent, <<"c">>, Absent, Absent)

SF8 == SFlight(<<"B", "A", "W", "1", "2", "3">>, <<"4", "0", "6", "a">>,
               Absent, <<"c">>, Absent, Absent)
SF9 == SFlight(<<"B", "A", "W", "4", "5", "6">>, <<"4", "0", "6", "b">>,
               Some(<<"c">>), <<"c">>, Some(<<"a", "b">>), Absent)

SearchStores ==
    { << >>, <<SF7>>, <<SF2, SF2, SF5>>, <<SF8, SF9, SF4>>,
      <<SF1, SF2, SF3, SF4, SF5, SF6, SF7>>,
      <<SF7, SF6, SF5, SF4, SF3, SF2, SF1>>,
      <<SF5, SF4, SF6, SF2, SF3, SF1>> }

AP1 == SAirport(Some(<<"A", "B">>), Some(<<"c", "a", "b">>),
                Some(<<"a", "b", " ", "c">>), Some(<<"b">>), Some(<<"c">>))
AP2 == SAirport(Some(<<"a">>), Some(<<"a", "a">>), Some(<<"b", "a">>),
                Some(<<"A", "b">>), Some(<<"a">>))
AP3 == SAirport(Absent, Absent, Some(<<"c", "a">>), Some(<<"c">>),
                Some(<<"b", "a">>))
AP4 == SAirport(Some(<<"b", "a">>), Some(<<"b">>), Some(<<"b">>),
                Some(<<"a">>), Some(<<"b">>))
AP5 == SAirport(Some(<<"c">>), Some(<<"c", "c">>), Some(<<"a", "c">>),
                Some(<<"c">>), Absent)
AP6 == SAirport(Some(<<"b">>), Some(<<"b", "b">>), Some(<<"b", "b">>),
                Some(<<"b", "a">>), Some(<<"c">>))
AP7 == SAirport(Some(<<"c">>), Some(<<"c">>), Some(<<"c">>), Some(<<"c">>),
                Some(<<"c">>))

AP8 == SAirport(Some(<<"c">>), Some(<<"c", "b">>), Some(<<"A", "b">>),
                Some(<<"a">>), Some(<<"b", "a">>))
AP9 == SAirport(Some(<<"A">>), Some(<<"c", "c">>), Some(<<"c">>),
                Some(<<"c">>), Some(<<"c">>))

AirportSets ==
    { << >>, <<AP7>>, <<AP1, AP2, AP3, AP4, AP5, AP6, AP7>>,
      <<AP7, AP6, AP5, AP4, AP3, AP2, AP1>>, <<AP8, AP9, AP3>> }

Queries ==
    { << >>, <<" ">>, <<"a">>, <<"A">>, <<"a", "b">>, <<" ", "a", " ">>,
      <<"c">>, <<"b", "a">>, <<"a", "b", "c", "a">>, <<"b", "a", "w">> }

Type == TypeQuery(Queries)

NewStore == StoreArrives(SearchStores)

NewAirports == AirportsArrive(AirportSets)

NextSearch == Type \/ NewStore \/ NewAirports

SpecSearch == Init /\ [][NextSearch]_vars

\* One aircraft reported at points that differ from each other in one axis,
\* in both, or by less than epsilon.
EpsilonOutcomes ==
    {Outcome("network", <<>>), Outcome("json", <<RecA0>>),
     Outcome("json", <<RecA1>>), Outcome("json", <<RecA2>>),
     Outcome("json", <<RecAEast>>), Outcome("json", <<RecANorth>>)}

ResolveEpsilon == ResolveIn(EpsilonOutcomes)

NextEpsilon == Poll \/ ResolveEpsilon

SpecEpsilon == Init /\ [][NextEpsilon]_vars

\* The engine fed records that carry no hex code and no registration.
IdOutcomes ==
    {Outcome("network", <<>>), Outcome("json", <<RecA0>>),
     Outcome("json", <<RecAnon>>), Outcome("json", <<RecA0, RecAnon>>)}

ResolveIds == ResolveIn(IdOutcomes)

NextIds == Poll \/ ResolveIds

SpecIds == Init /\ [][NextIds]_vars

\* The engine with the frame callback and the render of its updater as two
\* steps, so that time can pass and a response can arrive between them.
FrameOutcomes ==
    {Outcome("network", <<>>), Outcome("json", <<RecA0>>),
     Outcome("json", <<RecB>>)}

TickFrame == Advance(MaxFrameClock, FrameClockStep)

ResolveFrame == ResolveIn(FrameOutcomes)

NextFrame == TickFrame \/ AnimateCapture \/ AnimateUpdate \/ Poll \/ ResolveFrame

SpecFrame == Init /\ [][NextFrame]_vars

\* The hook in live mode whose argument then changes between renders, with
\* requests still awaiting their response at the change.
SwitchOutcomes == {Outcome("network", <<>>), Outcome("json", <<RecA0>>)}

ResolveSwitch == ResolveIn(SwitchOutcomes)

NextSwitch == Poll \/ ResolveSwitch \/ Switch

SpecSwitch == Init /\ [][NextSwitch]_vars

\* The SessionTimeout component with the user active or idle.
TickSession == Advance(MaxSessionClock, SessionClockStep)

UserActs == Activity(MaxTimers)

Effect == RunEffect(MaxTimers)

PageReload == Reload(MaxTimers)

NextSession == TickSession \/ UserActs \/ TimerFires \/ Effect \/ PageReload

SpecSession == Init /\ [][NextSession]_vars

\* ------------------------------------------------------------------ claims
\* What the formulas below read off a state.
StoreIds == {flights[i].icao24 : i \in 1..Len(flights)}

\* id and reported position of every entity, in store order
StoreView == [i \in 1..Len(flights) |->
                 <<flights[i].icao24, flights[i].longitude, flights[i].latitude>>]

\* the records of a response that pass the filter, capped, in upstream order
Accepted(resp) == Slice(SelectSeq2(resp, 1), MAX_FLIGHTS)

\* id and position of every accepted record of the response a cycle was given
SnapshotView(ran) ==
    LET kept == Accepted(ran.out.response)
    IN  [i \in 1..Len(kept) |->
            <<Icao24(kept[i], ran.random[i]), ParseFloat(kept[i].lng),
              ParseFloat(kept[i].lat)>>]

SnapshotIds(ran) ==
    LET view == SnapshotView(ran) IN {view[i][1] : i \in 1..Len(view)}

\* the step just taken was the end of a fetch cycle
CycleEnded(ran) == ran.op \in {"merge", "error"}

\* a response whose array holds no record that passes the filter
NoUsableRecord(out) ==
    /\ out.kind = "json"
    /\ \A i \in 1..Len(out.response) :
           ~out.response[i].null /\ ~AcceptRecord(out.response[i])

LastN(s, n) == IF Len(s) <= n THEN s ELSE SubSeq(s, Len(s) - n + 1, Len(s))

P0 == <<Num(100000), Num(200000)>>   \* (10.0000, 20.0000)
P2 == <<Num(100100), Num(200100)>>   \* (10.01, 20.01)

\* C1: a response with no usable record (an empty array, or records that are
\* all rejected), arriving while the store is non-empty, leaves the store as it
\* was and sets the error to the "no data" message.
C1_NoUsableRecordKeepsStore ==
    [][(mounted /\ CycleEnded(last') /\ NoUsableRecord(last'.out)
        /\ Len(flights) > 0)
       => (flights' = flights /\ error' = NoDataMessage)]_vars

\* C2: a fetch cycle that fails (network error, non-OK status, unparsable
\* body, missing or empty array, or a throw while mapping) leaves the store as
\* it was and sets a non-null error.
C2_FailureKeepsStore ==
    [][(mounted /\ last'.op = "error")
       => (flights' = flights /\ error' # NULL)]_vars

\* a cycle failed on each of the listed causes while the store held entities
C2_Witness ==
    /\ mounted
    /\ last.op = "error"
    /\ last.out.kind = "network"
    /\ Len(flights) > 0
    /\ error # NULL

\* C3: with an error showing, the timer stays armed as long as the hook is
\* mounted, and a cycle that then succeeds puts its snapshot in the store and
\* resets the error to null.
C3_LoopSurvivesFailure ==
    [][(mounted /\ error # NULL)
       => /\ mounted' => interval'
          /\ (mounted' /\ last'.op = "merge")
                => (error' = NULL /\ StoreView' = SnapshotView(last'))]_vars

\* request 1 failed, request 2 then succeeded
C3_Witness ==
    /\ mounted
    /\ interval
    /\ last.op = "merge"
    /\ last.req = 2
    /\ 1 \notin merged \cup inflight
    /\ error = NULL
    /\ Len(flights) > 0

\* C4: once unmounted, nothing changes the store, the kinematic cache, the
\* trails or the error again.
C4_NoMutationAfterTeardown ==
    [][~mounted => UNCHANGED <<flights, lastApiDataRef, trailsRef, error>>]_vars

\* C5: every cache entry a step writes is exposed by the store that the same
\* step puts in place: the step is the merge of a cycle, and the store then
\* holds an entity of that id at the cached position.
C5_CacheAndStoreTogether ==
    [][mounted =>
         \A id \in DOMAIN lastApiDataRef' :
            (id \notin DOMAIN lastApiDataRef
             \/ lastApiDataRef'[id] # lastApiDataRef[id])
            => /\ last'.op = "merge"
               /\ \E i \in 1..Len(flights') :
                     /\ flights'[i].icao24 = id
                     /\ flights'[i].longitude = lastApiDataRef'[id].lng
                     /\ flights'[i].latitude = lastApiDataRef'[id].lat]_vars

\* C6: when a cycle succeeds after a cycle issued later than it has already
\* succeeded, the store is the snapshot of the one that resolved last.
C6_LastResolvedWins ==
    (mounted /\ last.op = "merge" /\ \E q \in merged : q > last.req)
    => StoreView = SnapshotView(last)

\* request 2 was merged first, request 1 after it, with entities to show
C6_Witness ==
    /\ mounted
    /\ last.op = "merge"
    /\ last.req = 1
    /\ 2 \in merged
    /\ Len(flights) > 0

\* C7: after a successful fetch the ids in the store are exactly the ids of
\* the accepted records of that snapshot.
C7_HardReplace ==
    (mounted /\ last.op = "merge") => StoreIds = SnapshotIds(last)

\* a merge took place and an id known from an earlier cycle is not in the store
C7_Witness ==
    /\ mounted
    /\ last.op = "merge"
    /\ Len(flights) > 0
    /\ \E id \in DOMAIN lastApiDataRef : id \notin StoreIds

\* the ids a step may write: those of the accepted records of the response
\* its cycle was given
WrittenIds(ran) == IF CycleEnded(ran) THEN SnapshotIds(ran) ELSE {}

\* C8: no step removes a key of the cache or of the trail map, and a cycle
\* leaves alone the entries of every id that is absent from its snapshot.
C8_AbsentIdsKeepEntries ==
    [][/\ \A id \in DOMAIN lastApiDataRef :
            /\ id \in DOMAIN lastApiDataRef'
            /\ id \notin WrittenIds(last')
                  => lastApiDataRef'[id] = lastApiDataRef[id]
       /\ \A id \in DOMAIN trailsRef :
            /\ id \in DOMAIN trailsRef'
            /\ id \notin WrittenIds(last')
                  => trailsRef'[id] = trailsRef[id]]_vars

\* a cycle was merged whose snapshot lacks an id that has cache and trail
C8_Witness ==
    /\ last.op = "merge"
    /\ Len(last.out.response) > 0
    /\ \E id \in DOMAIN lastApiDataRef \cap DOMAIN trailsRef :
          id \notin SnapshotIds(last)

\* C9: a trail holds at most TRAIL_CAP points, and they are the points pushed
\* last for that id, in the order they were pushed.
C9_TrailIsLastFifty ==
    \A id \in DOMAIN trailsRef :
        /\ Len(trailsRef[id]) <= TRAIL_CAP
        /\ id \in DOMAIN pushed
        /\ trailsRef[id] = LastN(pushed[id], TRAIL_CAP)

\* more points were pushed for an id than the cap holds
C9_Witness ==
    \E id \in DOMAIN trailsRef :
        /\ Len(pushed[id]) > TRAIL_CAP
        /\ Len(trailsRef[id]) = TRAIL_CAP

\* both coordinates within epsilon of the point
WithinEpsilon(p, lng, lat) ==
    /\ ~p[1].nan /\ ~p[2].nan /\ ~lng.nan /\ ~lat.nan
    /\ Abs(p[1].v - lng.v) <= TRAIL_EPSILON
    /\ Abs(p[2].v - lat.v) <= TRAIL_EPSILON

\* C10: the merge of a one-record snapshot whose point is within epsilon of
\* the last point of that id's trail leaves the trail as it was; on a trail
\* holding (10.0000, 20.0000) the point (10.0001, 20.0001) keeps the length
\* at 1 and the point (10.01, 20.01) makes it 2.
C10_NearAppendIsNoOp ==
    [][(last'.op = "merge" /\ Len(last'.out.response) = 1)
       => LET rec == last'.out.response[1]
              id == Icao24(rec, last'.random[1])
              lng == ParseFloat(rec.lng)
              lat == ParseFloat(rec.lat)
          IN  (id \in DOMAIN trailsRef /\ Len(trailsRef[id]) > 0)
              => /\ WithinEpsilon(trailsRef[id][Len(trailsRef[id])], lng, lat)
                    => trailsRef'[id] = trailsRef[id]
                 /\ (trailsRef[id] = <<P0>> /\ rec = RecA1)
                    => Len(trailsRef'[id]) = 1
                 /\ (trailsRef[id] = <<P0>> /\ rec = RecA2)
                    => Len(trailsRef'[id]) = 2]_vars

\* (10.0001, 20.0001) was offered to a trail holding (10.0000, 20.0000)
C10_Witness ==
    /\ last.op = "merge"
    /\ last.out.response = <<RecA1>>
    /\ HexA \in DOMAIN trailsRef
    /\ trailsRef[HexA] = <<P0>>
    /\ pushed[HexA] = <<P0>>

\* C11: nothing a consumer does to the trail of an entity (adding, removing
\* or replacing elements, or changing the coordinates of one of its points)
\* changes a trail the hook keeps.
C11_ExposedTrailIsDetached ==
    [][last'.op = "consumer" => trailsRef' = trailsRef]_vars

\* the displayed position of entity i is its reported position moved by
\* num / DISP_DEN along each axis
ShownAt(i, numLng, numLat) ==
    /\ flights[i].interpolatedLng = Disp(flights[i].longitude, numLng)
    /\ flights[i].interpolatedLat = Disp(flights[i].latitude, numLat)

\* C12: after a tick, every entity of the store whose ground speed is zero
\* (a missing speed is stored as zero) is displayed at its reported position.
C12_StationaryStaysPut ==
    last.op = "animate"
    => \A i \in 1..Len(flights) :
          flights[i].velocity = 0 => ShownAt(i, 0, 0)

\* what a tick does
Ticked == last'.op = "animate"

\* the age of the cache entry of entity i, when it has one
HasEntry(i) == flights[i].icao24 \in DOMAIN lastApiDataRef
Elapsed(i) == now - lastApiDataRef[flights[i].icao24].timestamp

\* C13: a tick leaves the displayed position of an entity as it was when the
\* cache entry of its id is older than STALE_SECONDS.
C13_StaleIsFrozen ==
    [][Ticked =>
         \A i \in 1..Len(flights) :
            (HasEntry(i) /\ Elapsed(i) > STALE_SECONDS)
            => /\ flights'[i].interpolatedLng = flights[i].interpolatedLng
               /\ flights'[i].interpolatedLat = flights[i].interpolatedLat]_vars

\* a tick ran over a moving aircraft with a stale entry, displayed where the
\* tick at 45 s had put it
C13_Witness ==
    /\ last.op = "animate"
    /\ \E i \in 1..Len(flights) :
          /\ HasEntry(i)
          /\ Elapsed(i) > STALE_SECONDS
          /\ flights[i].velocity > 0
          /\ flights[i].interpolatedLng.num > 0

\* C14: after a tick, an entity whose cache entry is at most STALE_SECONDS
\* old is displayed at its reported position plus (sin, cos)(heading) times
\* speed / 111320 times the age of the entry: at the reported position at age
\* 0, and the same whatever ticks came before.
C14_DisplayFromAnchor ==
    last.op = "animate"
    => \A i \in 1..Len(flights) :
          (HasEntry(i) /\ Elapsed(i) >= 0 /\ Elapsed(i) <= STALE_SECONDS)
          => ShownAt(i,
                Sin(flights[i].heading) * flights[i].velocity * KNOT_MICRO
                    * Elapsed(i),
                Cos(flights[i].heading) * flights[i].velocity * KNOT_MICRO
                    * Elapsed(i))

\* C15: a tick changes nothing but interpolatedLng and interpolatedLat of the
\* entities: the other fields, the number and order of the entities, the cache
\* and the trails stay as they were.
C15_TickWritesDisplayOnly ==
    [][Ticked =>
         /\ lastApiDataRef' = lastApiDataRef
         /\ trailsRef' = trailsRef
         /\ Len(flights') = Len(flights)
         /\ \A i \in 1..Len(flights) :
               [flights'[i] EXCEPT
                   !.interpolatedLng = flights[i].interpolatedLng,
                   !.interpolatedLat = flights[i].interpolatedLat]
               = flights[i]]_vars

\* a tick moved the displayed position of an entity off its reported one
C15_Witness ==
    /\ last.op = "animate"
    /\ \E i \in 1..Len(flights) :
          /\ flights[i].interpolatedLng.num # 0
          /\ flights[i].interpolatedLng.at = flights[i].longitude

\* the records of a response that pass the filter, in upstream order
Passing(resp) == SelectSeq(resp, AcceptRecord)

\* id and position of the first n of them
FirstPassing(ran, n) ==
    LET pass == Passing(ran.out.response)
    IN  [i \in 1..(IF Len(pass) <= n THEN Len(pass) ELSE n) |->
            <<Icao24(pass[i], ran.random[i]), ParseFloat(pass[i].lng),
              ParseFloat(pass[i].lat)>>]

Finite(n) == ~n.nan

\* C17: every entity of the store, every cache entry and every trail point
\* has a finite longitude and latitude: a record whose longitude or latitude
\* is null, missing or not numeric is admitted to none of them.
C17_OnlyUsablePositions ==
    /\ \A i \in 1..Len(flights) :
          Finite(flights[i].longitude) /\ Finite(flights[i].latitude)
    /\ \A id \in DOMAIN lastApiDataRef :
          Finite(lastApiDataRef[id].lng) /\ Finite(lastApiDataRef[id].lat)
    /\ \A id \in DOMAIN trailsRef : \A k \in 1..Len(trailsRef[id]) :
          Finite(trailsRef[id][k][1]) /\ Finite(trailsRef[id][k][2])

\* a record with every field the engine reads present and of the expected
\* type, in flight
WellFormed(rec) ==
    /\ ~rec.null
    /\ rec.lng.t = "num" /\ rec.lat.t = "num"
    /\ rec.status = "en-route"
    /\ rec.hex.t \in {"str", "undef"}
    /\ rec.reg.t \in {"str", "undef"}

\* C18: a cycle whose response holds well-formed records next to a malformed
\* one (a null element, a missing field, a field of another type) ends in a
\* merge, and the well-formed records are in the store.
C18_BadRecordIsDropped ==
    (mounted /\ CycleEnded(last) /\ last.out.kind = "json")
    => LET resp == last.out.response
           good == {i \in 1..Len(resp) : WellFormed(resp[i])}
       IN  good # {}
           => /\ last.op = "merge"
              /\ \A i \in good :
                    Truthy(resp[i].hex) => resp[i].hex.v \in StoreIds

\* C19: after a merge no two entities of the store have the same id.
C19_IdsAreUnique ==
    (mounted /\ last.op = "merge")
    => \A i, j \in 1..Len(flights) :
          i # j => flights[i].icao24 # flights[j].icao24

\* a ranking of the records `recs` scored by `score`: at most SEARCH_TOP
\* distinct records, each with a positive score, as many as there are if fewer
\* than SEARCH_TOP score above 0, and no record left out scores higher than
\* one that is in
IsTopRanking(rank, recs, score(_)) ==
    LET in == {rank[k].at : k \in 1..Len(rank)}
        positive == {i \in 1..Len(recs) : score(recs[i]) > 0}
    IN  /\ Len(rank) <= SEARCH_TOP
        /\ in \subseteq positive
        /\ Cardinality(in) = Len(rank)
        /\ Len(rank) < SEARCH_TOP => in = positive
        /\ \A i \in (1..Len(recs)) \ in : \A j \in in :
              score(recs[i]) <= score(recs[j])

\* C20: for the query, the store and the airports of any state, each of the
\* two result lists holds at most SEARCH_TOP records, each with a score above
\* 0, and they are the top SEARCH_TOP of their category by score.
C20_ResultsAreTopFive ==
    LET q == Trim(ToLowerCase(searchQuery))
        fscore(f) == FlightScore(f, q)
        ascore(a) == AirportScore(a, q)
        r == Rankings(searchQuery, flights, airports)
        lists == SearchResults(searchQuery, flights, airports)
    IN  /\ Len(lists.flights) <= SEARCH_TOP
        /\ Len(lists.airports) <= SEARCH_TOP
        /\ \A k \in 1..Len(lists.flights) : fscore(lists.flights[k]) > 0
        /\ \A k \in 1..Len(lists.airports) : ascore(lists.airports[k]) > 0
        /\ Len(searchQuery) >= 1
              => /\ IsTopRanking(r.flights, flights, fscore)
                 /\ IsTopRanking(r.airports, airports, ascore)

\* a query is typed for which more flights and more airports score above 0
\* than a list holds, with different scores
C20_Witness ==
    LET q == Trim(ToLowerCase(searchQuery))
        lists == SearchResults(searchQuery, flights, airports)
    IN  /\ Len(q) >= 1
        /\ Len(lists.flights) = SEARCH_TOP
        /\ Len(lists.airports) = SEARCH_TOP
        /\ Cardinality({i \in 1..Len(flights) : FlightScore(flights[i], q) > 0})
              > SEARCH_TOP
        /\ Cardinality({i \in 1..Len(airports) : AirportScore(airports[i], q) > 0})
              > SEARCH_TOP
        /\ FlightScore(lists.flights[1], q) > FlightScore(lists.flights[SEARCH_TOP], q)

\* the trimmed lower-case query the memo scores with
Q == Trim(ToLowerCase(searchQuery))

\* the positions, in `recs`, of the records of a ranking run in non-increasing
\* score, and records of equal score keep the order they have in `recs`
IsStableDescending(rank, recs, score(_)) ==
    \A k, l \in 1..Len(rank) :
        k < l => \/ score(recs[rank[k].at]) > score(recs[rank[l].at])
                 \/ /\ score(recs[rank[k].at]) = score(recs[rank[l].at])
                    /\ rank[k].at < rank[l].at

\* C21: each result list runs in non-increasing score, and records of equal
\* score are in the order of the store (or of the airport set).
C21_RankingIsStable ==
    LET fscore(f) == FlightScore(f, Q)
        ascore(a) == AirportScore(a, Q)
        r == Rankings(searchQuery, flights, airports)
    IN  /\ IsStableDescending(r.flights, flights, fscore)
        /\ IsStableDescending(r.airports, airports, ascore)

\* a list holds two records of equal score next to records of another score
C21_Witness ==
    LET r == Rankings(searchQuery, flights, airports)
    IN  /\ \E k, l \in 1..Len(r.flights) :
              k < l /\ r.flights[k].score = r.flights[l].score
        /\ \E k, l \in 1..Len(r.flights) :
              r.flights[k].score > r.flights[l].score
        /\ \E k, l \in 1..Len(r.airports) :
              k < l /\ r.airports[k].score = r.airports[l].score

\* the query is, but for case, the IATA or the ICAO code of the airport
IsCodeOf(query, a) ==
    \/ a.iata.some /\ ToLowerCase(a.iata.s) = ToLowerCase(query)
    \/ a.icao.some /\ ToLowerCase(a.icao.s) = ToLowerCase(query)

\* the airport matches the query in its name, city or country and in neither
\* of its codes
MatchesByTextOnly(a, q) ==
    /\ \/ Includes(LowerOr(a.name), q)
       \/ Includes(LowerOr(a.city), q)
       \/ Includes(LowerOr(a.country), q)
    /\ ~StartsWith(LowerOr(a.iata), q)
    /\ ~StartsWith(LowerOr(a.icao), q)

\* the place of airport i in the ranking, 0 when it is not in it
PlaceOf(rank, i) ==
    IF \E k \in 1..Len(rank) : rank[k].at = i
    THEN CHOOSE k \in 1..Len(rank) : rank[k].at = i
    ELSE 0

RankedBefore(rank, i, j) ==
    PlaceOf(rank, j) # 0 => (PlaceOf(rank, i) # 0 /\ PlaceOf(rank, i) < PlaceOf(rank, j))

\* C22 as stated: when the query is the code of an airport, that airport is
\* ranked before every airport that matches through name, city or country
\* only.
C22_ExactCodeFirst ==
    LET r == Rankings(searchQuery, flights, airports).airports
    IN  Len(searchQuery) >= 1 =>
          \A i, j \in 1..Len(airports) :
             (IsCodeOf(searchQuery, airports[i])
              /\ MatchesByTextOnly(airports[j], Q))
             => RankedBefore(r, i, j)

\* C22 amended: when the query is the code of an airport, that airport scores
\* at least 180 and an airport that matches through name, city or country
\* only scores at most 180; the first is ranked before the second unless both
\* score 180 and the second comes first in the airport set.
C22_ExactCodeFirstButTies ==
    LET r == Rankings(searchQuery, flights, airports).airports
    IN  Len(searchQuery) >= 1 =>
          \A i, j \in 1..Len(airports) :
             (IsCodeOf(searchQuery, airports[i])
              /\ MatchesByTextOnly(airports[j], Q))
             => /\ AirportScore(airports[i], Q) >= 180
                /\ AirportScore(airports[j], Q) <= 180
                /\ \/ RankedBefore(r, i, j)
                   \/ /\ AirportScore(airports[i], Q) = 180
                      /\ AirportScore(airports[j], Q) = 180
                      /\ j < i

\* the query is the code of an airport that comes, in the set, after an
\* airport matching by text only, and is ranked before it
C22_Witness ==
    LET r == Rankings(searchQuery, flights, airports).airports
    IN  /\ Len(searchQuery) >= 1
        /\ \E i, j \in 1..Len(airports) :
              /\ IsCodeOf(searchQuery, airports[i])
              /\ MatchesByTextOnly(airports[j], Q)
              /\ j < i
              /\ PlaceOf(r, j) # 0
              /\ PlaceOf(r, i) # 0
              /\ PlaceOf(r, i) < PlaceOf(r, j)

\* the callsign of the flight starts with q without being q, and no other
\* field the search reads contains q
PrefixOfCallsignOnly(f, q) ==
    /\ StartsWith(ToLowerCase(f.callsign), q)
    /\ ToLowerCase(f.callsign) # q
    /\ ~Includes(ToLowerCase(f.icao24), q)
    /\ ~Includes(LowerOr(f.airline), q)
    /\ ~Includes(ToLowerCase(f.origin_country), q)
    /\ ~Includes(LowerOr(f.origin), q)
    /\ ~Includes(LowerOr(f.destination), q)

\* C23 as stated: a flight that matches the query by the start of its
\* callsign only scores 50.
C23_PrefixScoresFifty ==
    Len(searchQuery) >= 1 =>
       \A i \in 1..Len(flights) :
          PrefixOfCallsignOnly(flights[i], Q) => FlightScore(flights[i], Q) = 50

\* C23 amended: such a flight scores 70, the prefix weight 50 and the
\* substring weight 20 of the callsign, so two of them score the same.
C23_PrefixScoresSeventy ==
    Len(searchQuery) >= 1 =>
       \A i \in 1..Len(flights) :
          PrefixOfCallsignOnly(flights[i], Q) => FlightScore(flights[i], Q) = 70

\* BAW123 and BAW456 are in the store and the query is baw
C23_Witness ==
    /\ Q = <<"b", "a", "w">>
    /\ Len(flights) >= 2
    /\ flights[1].callsign = <<"B", "A", "W", "1", "2", "3">>
    /\ flights[2].callsign = <<"B", "A", "W", "4", "5", "6">>
    /\ PrefixOfCallsignOnly(flights[1], Q)
    /\ PrefixOfCallsignOnly(flights[2], Q)
    /\ SearchResults(searchQuery, flights, airports).flights
          = <<flights[1], flights[2]>>

\* the step merged a one-record snapshot of an id whose trail held points
OnePointOffered ==
    /\ last'.op = "merge"
    /\ Len(last'.out.response) = 1
    /\ Icao24(last'.out.response[1], last'.random[1]) \in DOMAIN trailsRef
    /\ Len(trailsRef[Icao24(last'.out.response[1], last'.random[1])]) > 0

OfferedId == Icao24(last'.out.response[1], last'.random[1])
OfferedLng == ParseFloat(last'.out.response[1].lng)
OfferedLat == ParseFloat(last'.out.response[1].lat)
LastPoint == trailsRef[OfferedId][Len(trailsRef[OfferedId])]

\* the coordinate is finite and more than TRAIL_EPSILON away
Off(a, b) == ~a.nan /\ ~b.nan /\ Abs(a.v - b.v) > TRAIL_EPSILON

\* C24 as stated: a point is appended to a trail only if it is more than
\* TRAIL_EPSILON off the last point in longitude and in latitude.
C24_AppendNeedsBothAxes ==
    [][OnePointOffered =>
         (trailsRef'[OfferedId] # trailsRef[OfferedId]
          => /\ Off(LastPoint[1], OfferedLng)
             /\ Off(LastPoint[2], OfferedLat))]_vars

\* C24 amended: a point is appended to a non-empty trail exactly when it is
\* more than TRAIL_EPSILON off the last point in longitude or in latitude;
\* otherwise the trail stays as it was.
C24_AppendNeedsOneAxis ==
    [][OnePointOffered =>
         IF Off(LastPoint[1], OfferedLng) \/ Off(LastPoint[2], OfferedLat)
         THEN LastN(trailsRef'[OfferedId], 1) = <<<<OfferedLng, OfferedLat>>>>
              /\ pushed'[OfferedId]
                    = Append(pushed[OfferedId], <<OfferedLng, OfferedLat>>)
         ELSE trailsRef'[OfferedId] = trailsRef[OfferedId]
              /\ pushed'[OfferedId] = pushed[OfferedId]]_vars

\* a point off in longitude only was offered to a trail ending at
\* (10.0000, 20.0000), and appended
C24_Witness ==
    /\ last.op = "merge"
    /\ last.out.response = <<RecAEast>>
    /\ Len(trailsRef[HexA]) >= 2
    /\ trailsRef[HexA][Len(trailsRef[HexA]) - 1] = P0
    /\ trailsRef[HexA][Len(trailsRef[HexA])] = <<Num(100100), Num(200000)>>

\* the ids of the store, in store order
IdsInOrder == [i \in 1..Len(flights) |-> flights[i].icao24]

\* C25: when two successive cycles succeed on the same response, each record
\* gets in the second the id it had in the first, and the second cycle adds
\* no key to the cache or to the trail map.
C25_IdsAreStable ==
    [][(mounted /\ last.op = "merge" /\ last'.op = "merge"
        /\ last'.out = last.out)
       => /\ IdsInOrder' = IdsInOrder
          /\ DOMAIN lastApiDataRef' = DOMAIN lastApiDataRef
          /\ DOMAIN trailsRef' = DOMAIN trailsRef]_vars

\* C26: once a fetch has succeeded, every entity of the store has a cache
\* entry with its reported position and heading, stamped with the time of the
\* merge that stored it, and a trail that ends within TRAIL_EPSILON of its
\* reported position.
C26_StoreCacheTrailAgree ==
    (mounted /\ merged # {})
    => \A i \in 1..Len(flights) :
          LET id == flights[i].icao24
          IN  /\ id \in DOMAIN lastApiDataRef
              /\ lastApiDataRef[id].lng = flights[i].longitude
              /\ lastApiDataRef[id].lat = flights[i].latitude
              /\ lastApiDataRef[id].heading = flights[i].heading
              /\ lastApiDataRef[id].timestamp <= now
              /\ last.op = "merge" => lastApiDataRef[id].timestamp = now
              /\ id \in DOMAIN trailsRef
              /\ Len(trailsRef[id]) > 0
              /\ WithinEpsilon(trailsRef[id][Len(trailsRef[id])],
                               flights[i].longitude, flights[i].latitude)

\* the render of a queued updater
Rendered == queued # NoTick /\ last'.op = "render" /\ mounted

FlightFields(f) ==
    {ToLowerCase(f.callsign), ToLowerCase(f.icao24), LowerOr(f.airline),
     ToLowerCase(f.origin_country), LowerOr(f.origin), LowerOr(f.destination)}
AirportFields(a) ==
    {LowerOr(a.iata), LowerOr(a.icao), LowerOr(a.name), LowerOr(a.city),
     LowerOr(a.country)}
ContainsQuery(fields) == Q # << >> /\ \E x \in fields : Includes(x, Q)

\* C28: every flight and every airport the search returns has a searched
\* field that contains the trimmed, lower-cased query, which is not empty; a
\* query of nothing but whitespace returns two empty lists.
C28_ResultsContainQuery ==
    LET lists == SearchResults(searchQuery, flights, airports)
    IN  /\ \A k \in 1..Len(lists.flights) :
               ContainsQuery(FlightFields(lists.flights[k]))
        /\ \A k \in 1..Len(lists.airports) :
               ContainsQuery(AirportFields(lists.airports[k]))
        /\ Q = << >> => lists.flights = << >> /\ lists.airports = << >>

\* the store is an array generateDummyFlights returns
HoldsDummies == \E seed \in DummySeeds : flights = GenerateDummyFlights(seed)

\* C29: while the hook is in dummy mode after a switch from live mode, the
\* store holds exactly the DUMMY_COUNT generated dummy entities and the error
\* is null: a live fetch still in flight at the switch neither overwrites the
\* store nor sets an error when it resolves.
C29_DummyModeIsUndisturbed ==
    (mounted /\ useDummyData) => HoldsDummies /\ error = NULL

\* C30: once the timeout has made the overlay visible it stays visible until
\* the page is reloaded, whatever activity events and effect runs follow;
\* before that every activity event leaves exactly one timeout pending, due
\* a full SESSION_TIMEOUT after the event, and never more than one timeout
\* is pending.
C30_OverlayStaysUntilReload ==
    [][/\ (showTimeout /\ last'.op # "reload") => showTimeout'
       /\ Cardinality(timers') <= 1
       /\ (~showTimeout /\ ~handlerSees /\ last'.op = "activity")
              => timers' = {[id |-> timeoutRef',
                             due |-> now + SESSION_TIMEOUT]}]_vars
====
